---------------------------- MODULE Spec2Model ----------------------------
(***************************************************************************)
(* Model of src/bot/bot.py: a Telegram bot that turns chat commands into   *)
(* HTTP calls against a backend and renders the result as one chat reply.  *)
(*                                                                         *)
(* A message text is a sequence of one-character strings, so that str.split*)
(* str.strip, str.startswith and str.replace are modelled by what they do. *)
(* Values that are only copied (error texts, aliases, handles, nonces) are *)
(* TLA+ strings.                                                           *)
(*                                                                         *)
(* message.answer is taken to deliver the reply: failures of the chat      *)
(* transport are outside this model.                                       *)
(***************************************************************************)
EXTENDS Integers, Sequences, FiniteSets, TLC

VARIABLES BOT_TOKEN, mainPc, msgs

vars == <<BOT_TOKEN, mainPc, msgs>>

(***************************************************************************)
(* Bounds of the model.                                                    *)
(***************************************************************************)
\* number of atoms appended to a command head to build an inbound text
MaxTail == 3
\* length of the items list of a backend answer
MaxItems == 2
\* number of message slots (handler tasks that may be alive at once)
MaxConc == 2

(***************************************************************************)
(* Python string operations on character sequences.                        *)
(***************************************************************************)
\* Python's None, where it is a value that is only passed along
None == "<None>"

IsSpace(c) == c = " "

RECURSIVE LStrip(_)
LStrip(s) ==
    IF s = <<>> THEN <<>>
    ELSE IF IsSpace(Head(s)) THEN LStrip(Tail(s)) ELSE s

RECURSIVE RStrip(_)
RStrip(s) ==
    IF s = <<>> THEN <<>>
    ELSE IF IsSpace(s[Len(s)]) THEN RStrip(SubSeq(s, 1, Len(s) - 1)) ELSE s

\* str.strip()
Strip(s) == RStrip(LStrip(s))

\* str.startswith(p)
StartsWith(s, p) == Len(s) >= Len(p) /\ SubSeq(s, 1, Len(p)) = p

\* index of the first position of s holding a character of the set cs,
\* Len(s) + 1 when there is none
RECURSIVE FirstIn(_, _, _)
FirstIn(s, cs, i) ==
    IF i > Len(s) THEN Len(s) + 1
    ELSE IF s[i] \in cs THEN i ELSE FirstIn(s, cs, i + 1)

\* faulty variant of SplitMax1: the remainder keeps its leading whitespace
\* (as str.split(' ', 1) would)
SplitMax1KeepSpace(s) ==
    LET t == LStrip(s)
        i == FirstIn(t, {" "}, 1)
        first == SubSeq(t, 1, i - 1)
        rest == SubSeq(t, i + 1, Len(t))
    IN  IF t = <<>> THEN <<>>
        ELSE IF i > Len(t) THEN <<first>> ELSE <<first, rest>>

\* str.split(maxsplit=1): split on runs of whitespace, at most one split;
\* the remainder loses its leading whitespace and keeps its trailing one
SplitMax1(s) ==
    LET t == LStrip(s)
        i == FirstIn(t, {" "}, 1)
        first == SubSeq(t, 1, i - 1)
        rest == LStrip(SubSeq(t, i, Len(t)))
    IN  IF t = <<>> THEN <<>>
        ELSE IF rest = <<>> THEN <<first>> ELSE <<first, rest>>

\* sep in s
Contains(s, sep) == FirstIn(s, {sep}, 1) <= Len(s)

\* str.split(sep, 1) for a one-character separator
SplitSep1(s, sep) ==
    LET i == FirstIn(s, {sep}, 1)
    IN  IF i > Len(s) THEN <<s>>
        ELSE <<SubSeq(s, 1, i - 1), SubSeq(s, i + 1, Len(s))>>

\* index of the first occurrence of p in s from position i, 0 when absent
RECURSIVE Find(_, _, _)
Find(s, p, i) ==
    IF i + Len(p) - 1 > Len(s) THEN 0
    ELSE IF SubSeq(s, i, i + Len(p) - 1) = p THEN i ELSE Find(s, p, i + 1)

\* faulty variant of RemoveFirst: every occurrence of p removed, as
\* str.replace(p, '') without a count would
RECURSIVE RemoveAll(_, _)
RemoveAll(s, p) ==
    LET i == Find(s, p, 1)
    IN  IF i = 0 THEN s
        ELSE SubSeq(s, 1, i - 1) \o RemoveAll(SubSeq(s, i + Len(p), Len(s)), p)

\* str.replace(p, '', 1): the first occurrence of p removed
RemoveFirst(s, p) ==
    LET i == Find(s, p, 1)
    IN  IF i = 0 THEN s
        ELSE SubSeq(s, 1, i - 1) \o SubSeq(s, i + Len(p), Len(s))

Digit(d) == <<"0", "1", "2", "3", "4", "5", "6", "7", "8", "9">>[d + 1]

\* str(n) for a non-negative integer
RECURSIVE IntToStr(_)
IntToStr(n) ==
    IF n < 10 THEN <<Digit(n)>>
    ELSE IntToStr(n \div 10) \o <<Digit(n % 10)>>


(***************************************************************************)
(* Inputs: inbound messages.                                               *)
(***************************************************************************)
\* the command heads an inbound text starts with; the empty head gives free
\* text (and stands for a message without text: message.text or '')
Heads ==
    { <<>>,
      <<"/", "s", "t", "a", "r", "t">>,
      <<"/", "s", "t", "a", "t", "u", "s">>,
      <<"/", "a", "c", "c", "o", "u", "n", "t", "s">>,
      <<"/", "c", "o", "d", "e", "s">>,
      <<"/", "c", "o", "n", "f", "i", "r", "m">>,
      <<"/", "a", "d", "d">> }

LoginPrefix == <<"l", "o", "g", "i", "n", "_">>

\* the pieces a text's tail is built from: whitespace, the separators the
\* handlers look for, an identifier character, account prefixes, login_
Atoms ==
    { <<" ">>, <<"=">>, <<":">>, <<"a">>, <<"1", ":">>, <<"2", ":">>, LoginPrefix }

RECURSIVE TailsUpTo(_)
TailsUpTo(n) ==
    IF n = 0 THEN {<<>>}
    ELSE LET shorter == TailsUpTo(n - 1)
         IN  shorter \cup {t \o a : t \in shorter, a \in Atoms}

Texts == {h \o t : h \in Heads, t \in TailsUpTo(MaxTail)}

\* message.from_user: id and optional username
Senders == { [id |-> 42, username |-> "alice"], [id |-> 7, username |-> None] }

\* values of TELEGRAM_BOT_TOKEN in the environment
Tokens ==
    { <<>>,
      <<"c", "h", "a", "n", "g", "e", "_", "m", "e">>,
      <<"c", "h", "a", "n", "g", "e", "_", "m", "e", "_", "n", "o", "w">>,
      <<"7", ":", "k">> }

(***************************************************************************)
(* Inputs: backend answers.                                                *)
(***************************************************************************)
RECURSIVE SeqsUpTo(_, _)
SeqsUpTo(S, n) ==
    IF n = 0 THEN {<<>>}
    ELSE LET shorter == SeqsUpTo(S, n - 1)
         IN  shorter \cup {Append(l, x) : l \in shorter, x \in S}

\* items of GET /api/telegram/bot/confirms/{id}; keys are the fields the
\* JSON object carries (a field outside keys is absent, its value unused)
ConfirmItems ==
    { [keys |-> {"account_id", "confirmation_id", "nonce"},
       account_id |-> 1, confirmation_id |-> <<"a">>, nonce |-> "n1"],
      [keys |-> {"account_id", "confirmation_id"},
       account_id |-> 2, confirmation_id |-> <<"a">>, nonce |-> None],
      [keys |-> {"account_id", "confirmation_id", "nonce"},
       account_id |-> 1, confirmation_id |-> <<"a", "a">>, nonce |-> "n3"],
      [keys |-> {"account_id"},
       account_id |-> 2, confirmation_id |-> <<>>, nonce |-> None],
      [keys |-> {"confirmation_id"},
       account_id |-> 0, confirmation_id |-> <<"a">>, nonce |-> None] }

\* items of GET /api/telegram/bot/accounts/{id}
AccountItems ==
    { [keys |-> {"id", "alias", "steamid"}, id |-> 1, alias |-> "main", steamid |-> "7656"],
      [keys |-> {"id", "alias"}, id |-> 2, alias |-> "alt", steamid |-> None],
      [keys |-> {"id"}, id |-> 3, alias |-> None, steamid |-> None] }

\* items of GET /api/telegram/bot/codes/{id}
CodeItems ==
    { [keys |-> {"alias", "code"}, alias |-> "main", code |-> "ABC12"],
      [keys |-> {"alias"}, alias |-> "alt", code |-> None] }

\* response bodies: a JSON object (with the fields in keys), a JSON array,
\* a text that is not JSON, an empty body
ObjectBody(keys, message, items) ==
    [kind |-> "object", keys |-> keys, message |-> message, items |-> items]

OtherBody(kind) == [kind |-> kind, keys |-> {}, message |-> None, items |-> <<>>]

Messages == {"no such code"}

Bodies(lists) ==
    {ObjectBody({}, None, <<>>)}
    \cup {ObjectBody({"message"}, m, <<>>) : m \in Messages}
    \cup {ObjectBody({"items"}, None, l) : l \in lists}
    \cup {OtherBody("array"), OtherBody("text"), OtherBody("empty")}

Statuses == {200, 400, 404}

\* what a request can end with: a connection failure, the 20 s timeout, or
\* an HTTP response
Responses(lists) ==
    {[net |-> n, status |-> 0, body |-> OtherBody("empty")] : n \in {"connect", "timeout"}}
    \cup {[net |-> "ok", status |-> s, body |-> b] : s \in Statuses, b \in Bodies(lists)}

ResponsesTo(endpoint) ==
    CASE endpoint = "/api/telegram/bot/confirms/" -> Responses(SeqsUpTo(ConfirmItems, MaxItems))
      [] endpoint = "/api/telegram/bot/accounts/" -> Responses(SeqsUpTo(AccountItems, MaxItems))
      [] endpoint = "/api/telegram/bot/codes/" -> Responses(SeqsUpTo(CodeItems, MaxItems))
      [] OTHER -> Responses({})

(***************************************************************************)
(* call_backend                                                            *)
(***************************************************************************)
\* the status from which a response is an error
ErrorStatus == 400

Returned(data) == [raised |-> FALSE, err |-> "", data |-> data]

Raised(err) == [raised |-> TRUE, err |-> err, data |-> OtherBody("null")]

\* faulty variant of ParseJson: a body that is not JSON is swallowed and
\* read as None
ParseJsonLenient(body) ==
    CASE body.kind \in {"text", "empty"} -> Returned(OtherBody("null"))
      [] OTHER -> Returned(body)

\* response.json(content_type=None): the parsed body; an empty body parses
\* to None, a body that is not JSON raises
ParseJson(body) ==
    CASE body.kind = "text" -> Raised("Expecting value: line 1 column 1 (char 0)")
      [] body.kind = "empty" -> Returned(OtherBody("null"))
      [] OTHER -> Returned(body)

\* str(x) of a parsed value that is not a dict, or of a message field
PyStr(data) ==
    CASE data.kind = "array" -> "[]"
      [] data.kind = "null" -> "None"
      [] OTHER -> "{...}"

\* isinstance(data, dict)
IsDict(data) == data.kind = "object"

\* faulty variant of ErrorMessage: the whole body is rendered, the message
\* field is not extracted
ErrorMessageRaw(data) == PyStr(data)

\* data.get('message') if isinstance(data, dict) else str(data), as the
\* text of the RuntimeError raised with it
ErrorMessage(data) ==
    IF IsDict(data)
    THEN IF "message" \in data.keys THEN data.message ELSE "None"
    ELSE PyStr(data)

\* faulty variant of call_backend: status 400 itself is not an error
\* (response.status > 400)
CallBackendAbove400(resp) ==
    CASE resp.net = "connect" -> Raised("Cannot connect to host backend:3001")
      [] resp.net = "timeout" -> Raised("")
      [] OTHER ->
           LET parsed == ParseJson(resp.body)
           IN  IF parsed.raised THEN parsed
               ELSE IF resp.status > ErrorStatus THEN Raised(ErrorMessage(parsed.data))
               ELSE Returned(parsed.data)

\* call_backend from the end of the request on: the value returned or the
\* exception raised
call_backend(resp) ==
    CASE resp.net = "connect" -> Raised("Cannot connect to host backend:3001")
      [] resp.net = "timeout" -> Raised("")
      [] OTHER ->
           LET parsed == ParseJson(resp.body)
           IN  IF parsed.raised THEN parsed
               ELSE IF resp.status >= ErrorStatus THEN Raised(ErrorMessage(parsed.data))
               ELSE Returned(parsed.data)

NoPayload == [kind |-> "none"]

\* faulty variant of Request: the header is derived per request, the token
\* followed by the path suffix (the sender's id)
RequestTokenPerUser(method, endpoint, suffix, payload) ==
    [method |-> method, endpoint |-> endpoint, suffix |-> suffix,
     payload |-> payload, token |-> BOT_TOKEN \o suffix]

\* the request call_backend sends: url, json payload and the token header
Request(method, endpoint, suffix, payload) ==
    [method |-> method, endpoint |-> endpoint, suffix |-> suffix,
     payload |-> payload, token |-> BOT_TOKEN]

(***************************************************************************)
(* Replies and the outcome of a stretch of handler code.                   *)
(***************************************************************************)
\* a fixed text
Plain(text) == [kind |-> "plain", head |-> text, err |-> "", lines |-> <<>>]

\* f'<prefix>{err}'
Failure(prefix, err) == [kind |-> "failure", head |-> prefix, err |-> err, lines |-> <<>>]

\* '\n'.join([head] + lines)
Listing(head, lines) == [kind |-> "list", head |-> head, err |-> "", lines |-> lines]

NoReply == Plain("")

NoRequest == Request("", "", <<>>, NoPayload)

\* a stretch of handler code ends by answering, by raising, or at the
\* await of a backend call
Answer(reply) == [kind |-> "answer", reply |-> reply, err |-> "", request |-> NoRequest]

Throw(err) == [kind |-> "raise", reply |-> NoReply, err |-> err, request |-> NoRequest]

Call(request) == [kind |-> "call", reply |-> NoReply, err |-> "", request |-> request]

\* faulty variant of Catch: no except clause, the exception leaves the
\* handler
CatchNothing(prefix, outcome) == outcome

\* except Exception as err: await message.answer(f'<prefix>{err}')
Catch(prefix, outcome) ==
    IF outcome.kind = "raise" THEN Answer(Failure(prefix, outcome.err)) ELSE outcome

(***************************************************************************)
(* Routing: the filters of the @dp.message decorators, tried in the order  *)
(* of registration; the first handler whose filter passes gets the message.*)
(***************************************************************************)
Slash == <<"/">>

\* the command a Command filter sees: the first whitespace-separated word
\* without its leading "/", or <<>> when the text does not open with one
CommandOf(text) ==
    LET parts == SplitMax1(text)
    IN  IF parts # <<>> /\ StartsWith(parts[1], Slash) THEN Tail(parts[1]) ELSE <<>>

\* the arguments a Command filter sees: the rest of the text, <<>> if none
ArgsOf(text) ==
    LET parts == SplitMax1(text)
    IN  IF Len(parts) > 1 THEN parts[2] ELSE <<>>

Route(text) ==
    LET cmd == CommandOf(text)
    IN  CASE cmd = <<"s", "t", "a", "r", "t">> /\ ArgsOf(text) # <<>> -> "start_with_param"
          [] cmd = <<"s", "t", "a", "r", "t">> /\ ArgsOf(text) = <<>> -> "start_plain"
          [] cmd = <<"s", "t", "a", "t", "u", "s">> -> "status"
          [] cmd = <<"a", "c", "c", "o", "u", "n", "t", "s">> -> "accounts"
          [] cmd = <<"c", "o", "d", "e", "s">> -> "codes"
          [] cmd = <<"c", "o", "n", "f", "i", "r", "m">> -> "confirm"
          [] OTHER -> "fallback"

(***************************************************************************)
(* The handlers, each cut at its awaits of call_backend.                   *)
(***************************************************************************)
UserId(sender) == IntToStr(sender.id)

\* the body {code, telegramUserId, username} of the oauth and link calls
CodePayload(code, sender) ==
    [kind |-> "code", code |-> code, telegramUserId |-> UserId(sender),
     username |-> sender.username]

\* faulty variant of StartWithParamEntry: the argument is taken as a login
\* code whether or not it starts with login_
StartWithParamEntryAnyArg(text, sender) ==
    LET parts == SplitMax1(text)
        arg == IF Len(parts) > 1 THEN parts[2] ELSE <<>>
    IN  Catch("Login failed: ",
              Call(Request("POST", "/api/telegram/bot/oauth", <<>>,
                           CodePayload(RemoveFirst(arg, LoginPrefix), sender))))

\* start_with_param up to its await of call_backend
StartWithParamEntry(text, sender) ==
    LET parts == SplitMax1(text)
        arg == IF Len(parts) > 1 THEN parts[2] ELSE <<>>
    IN  IF StartsWith(arg, LoginPrefix)
        THEN Catch("Login failed: ",
                   Call(Request("POST", "/api/telegram/bot/oauth", <<>>,
                                CodePayload(RemoveFirst(arg, LoginPrefix), sender))))
        ELSE Answer(Plain("SteamGuard Bot ready. Commands: ..."))

\* start_with_param after call_backend
StartWithParamResume(res) ==
    Catch("Login failed: ",
          IF res.raised THEN Throw(res.err)
          ELSE Answer(Plain("Login approved. Return to SteamGuard Web and wait for auto-login.")))

StartPlainEntry ==
    Answer(Plain("SteamGuard Bot is active. Use /accounts, /codes or /add=<code> from web settings."))

StatusEntry(sender) ==
    Catch("Backend connection error: ",
          Call(Request("GET", "/api/telegram/bot/accounts/", UserId(sender), NoPayload)))

StatusResume(res) ==
    Catch("Backend connection error: ",
          IF res.raised THEN Throw(res.err)
          ELSE Answer(Plain("Backend connection: OK")))

\* data.get('items', []): AttributeError unless data is a dict
GetItems(data) ==
    CASE data.kind = "object" ->
           Returned(IF "items" \in data.keys THEN data.items ELSE <<>>)
      [] data.kind = "array" -> Raised("'list' object has no attribute 'get'")
      [] OTHER -> Raised("'NoneType' object has no attribute 'get'")

\* the first of the keys, in the order read, that the item lacks (KeyError)
RECURSIVE MissingKey(_, _)
MissingKey(item, keys) ==
    IF keys = <<>> THEN ""
    ELSE IF Head(keys) \notin item.keys THEN Head(keys)
    ELSE MissingKey(item, Tail(keys))

KeyError(key) == "'" \o key \o "'"

AccountsEntry(sender) ==
    Catch("Failed to fetch accounts: ",
          Call(Request("GET", "/api/telegram/bot/accounts/", UserId(sender), NoPayload)))

\* item.get('steamid') or 'no steamid'
SteamIdOf(item) ==
    IF "steamid" \in item.keys /\ item.steamid \notin {None, ""}
    THEN item.steamid ELSE "no steamid"

\* the lines of the accounts listing, up to the first item that raises
RECURSIVE AccountLines(_, _)
AccountLines(items, acc) ==
    IF items = <<>> THEN Answer(Listing("Your Steam accounts:", acc))
    ELSE LET item == Head(items)
             missing == MissingKey(item, <<"id", "alias">>)
         IN  IF missing # "" THEN Throw(KeyError(missing))
             ELSE AccountLines(Tail(items),
                               Append(acc, [id |-> item.id, alias |-> item.alias,
                                            steamid |-> SteamIdOf(item)]))

\* faulty variant of AccountsResume: only the backend call is inside the
\* try, the rendering of its answer is not
AccountsResumeUnguarded(res) ==
    IF res.raised THEN Catch("Failed to fetch accounts: ", Throw(res.err))
    ELSE LET items == GetItems(res.data)
         IN  IF items.raised THEN Throw(items.err)
             ELSE IF items.data = <<>> THEN Answer(Plain("No Steam accounts linked."))
             ELSE AccountLines(items.data, <<>>)

AccountsResume(res) ==
    Catch("Failed to fetch accounts: ",
          IF res.raised THEN Throw(res.err)
          ELSE LET items == GetItems(res.data)
               IN  IF items.raised THEN Throw(items.err)
                   ELSE IF items.data = <<>> THEN Answer(Plain("No Steam accounts linked."))
                   ELSE AccountLines(items.data, <<>>))

CodesEntry(sender) ==
    Catch("Failed to fetch codes: ",
          Call(Request("GET", "/api/telegram/bot/codes/", UserId(sender), NoPayload)))

RECURSIVE CodeLines(_, _)
CodeLines(items, acc) ==
    IF items = <<>> THEN Answer(Listing("Current Steam codes:", acc))
    ELSE LET item == Head(items)
             missing == MissingKey(item, <<"alias", "code">>)
         IN  IF missing # "" THEN Throw(KeyError(missing))
             ELSE CodeLines(Tail(items),
                            Append(acc, [alias |-> item.alias, code |-> item.code]))

\* faulty variant of CodesResume: the test of an empty list is missing, the
\* listing is rendered whatever its length
CodesResumeNoEmptyTest(res) ==
    Catch("Failed to fetch codes: ",
          IF res.raised THEN Throw(res.err)
          ELSE LET items == GetItems(res.data)
               IN  IF items.raised THEN Throw(items.err)
                   ELSE CodeLines(items.data, <<>>))

CodesResume(res) ==
    Catch("Failed to fetch codes: ",
          IF res.raised THEN Throw(res.err)
          ELSE LET items == GetItems(res.data)
               IN  IF items.raised THEN Throw(items.err)
                   ELSE IF items.data = <<>>
                        THEN Answer(Plain("No linked accounts or codes unavailable."))
                   ELSE CodeLines(items.data, <<>>))

(***************************************************************************)
(* confirm                                                                 *)
(***************************************************************************)
UsageText == "Usage: /confirm <trade_id> OR /confirm <account_id>:<trade_id>"

NoPendingText == "No pending confirmations."

NotFoundText == "Trade confirmation id not found in pending queue."

ConfirmSentText == "Trade confirmation sent to Steam successfully."

\* identifier = parts[1].strip()
IdentifierOf(text) == Strip(SplitMax1(text)[2])

\* confirm up to its first await of call_backend
ConfirmEntry(text, sender) ==
    IF Len(SplitMax1(text)) < 2 THEN Answer(Plain(UsageText))
    ELSE Catch("Confirm failed: ",
               Call(Request("GET", "/api/telegram/bot/confirms/", UserId(sender), NoPayload)))

\* faulty variant of ItemTest: the account part of account:id is ignored
ItemTestIgnoreAccount(item, identifier) ==
    LET wanted == IF Contains(identifier, ":")
                  THEN SplitSep1(identifier, ":")[2] ELSE identifier
    IN  IF "confirmation_id" \notin item.keys THEN "confirmation_id"
        ELSE IF item.confirmation_id = wanted THEN "match" ELSE "nomatch"

\* the test of one item in the scan: "match", "nomatch", or the key whose
\* lookup raises KeyError. With a ':' in the identifier the confirmation id
\* is read only when the account id matched (short-circuit `and`).
ItemTest(item, identifier) ==
    IF Contains(identifier, ":")
    THEN LET lr == SplitSep1(identifier, ":")
         IN  IF "account_id" \notin item.keys THEN "account_id"
             ELSE IF IntToStr(item.account_id) # lr[1] THEN "nomatch"
             ELSE IF "confirmation_id" \notin item.keys THEN "confirmation_id"
             ELSE IF item.confirmation_id = lr[2] THEN "match" ELSE "nomatch"
    ELSE IF "confirmation_id" \notin item.keys THEN "confirmation_id"
         ELSE IF item.confirmation_id = identifier THEN "match" ELSE "nomatch"

\* faulty variant of Resolve: the loops lack their break, the last match
\* wins
RECURSIVE ResolveLast(_, _, _)
ResolveLast(items, identifier, i) ==
    IF i > Len(items) THEN [raised |-> FALSE, err |-> "", index |-> 0]
    ELSE LET t == ItemTest(items[i], identifier)
             rest == ResolveLast(items, identifier, i + 1)
         IN  CASE t = "match" -> IF rest.raised \/ rest.index # 0 THEN rest
                                 ELSE [raised |-> FALSE, err |-> "", index |-> i]
               [] t = "nomatch" -> rest
               [] OTHER -> [raised |-> TRUE, err |-> KeyError(t), index |-> 0]

\* the for loops with break: the index of the chosen item, 0 for chosen =
\* None, or the KeyError raised on the way
RECURSIVE Resolve(_, _, _)
Resolve(items, identifier, i) ==
    IF i > Len(items) THEN [raised |-> FALSE, err |-> "", index |-> 0]
    ELSE LET t == ItemTest(items[i], identifier)
         IN  CASE t = "match" -> [raised |-> FALSE, err |-> "", index |-> i]
               [] t = "nomatch" -> Resolve(items, identifier, i + 1)
               [] OTHER -> [raised |-> TRUE, err |-> KeyError(t), index |-> 0]

\* the body {telegramUserId, accountId, confirmationId, nonce} of the
\* confirm call
ConfirmPayload(chosen, sender) ==
    [kind |-> "confirm", telegramUserId |-> UserId(sender),
     accountId |-> chosen.account_id, confirmationId |-> chosen.confirmation_id,
     nonce |-> IF "nonce" \in chosen.keys THEN chosen.nonce ELSE None]

\* faulty variant of ConfirmAfterGet: no test for an empty pending list
ConfirmAfterGetNoEmptyTest(res, identifier, sender) ==
    Catch("Confirm failed: ",
          IF res.raised THEN Throw(res.err)
          ELSE LET items == GetItems(res.data)
               IN  IF items.raised THEN Throw(items.err)
                   ELSE LET found == Resolve(items.data, identifier, 1)
                        IN  IF found.raised THEN Throw(found.err)
                            ELSE IF found.index = 0 THEN Answer(Plain(NotFoundText))
                            ELSE Call(Request("POST", "/api/telegram/bot/confirm", <<>>,
                                              ConfirmPayload(items.data[found.index], sender))))

\* faulty variant of ConfirmAfterGet: a pending lookup that failed is
\* issued a second time
ConfirmAfterGetRetry(res, identifier, sender) ==
    Catch("Confirm failed: ",
          IF res.raised
          THEN Call(Request("GET", "/api/telegram/bot/confirms/", UserId(sender), NoPayload))
          ELSE LET items == GetItems(res.data)
               IN  IF items.raised THEN Throw(items.err)
                   ELSE IF items.data = <<>> THEN Answer(Plain(NoPendingText))
                   ELSE LET found == Resolve(items.data, identifier, 1)
                        IN  IF found.raised THEN Throw(found.err)
                            ELSE IF found.index = 0 THEN Answer(Plain(NotFoundText))
                            ELSE IF "account_id" \notin items.data[found.index].keys
                                 THEN Throw(KeyError("account_id"))
                            ELSE Call(Request("POST", "/api/telegram/bot/confirm", <<>>,
                                              ConfirmPayload(items.data[found.index], sender))))

\* confirm between the pending lookup and the confirm call
ConfirmAfterGet(res, identifier, sender) ==
    Catch("Confirm failed: ",
          IF res.raised THEN Throw(res.err)
          ELSE LET items == GetItems(res.data)
               IN  IF items.raised THEN Throw(items.err)
                   ELSE IF items.data = <<>> THEN Answer(Plain(NoPendingText))
                   ELSE LET found == Resolve(items.data, identifier, 1)
                        IN  IF found.raised THEN Throw(found.err)
                            ELSE IF found.index = 0 THEN Answer(Plain(NotFoundText))
                            ELSE IF "account_id" \notin items.data[found.index].keys
                                 THEN Throw(KeyError("account_id"))
                            ELSE Call(Request("POST", "/api/telegram/bot/confirm", <<>>,
                                              ConfirmPayload(items.data[found.index], sender))))

\* faulty variant of ConfirmAfterPost: after a successful confirm call the
\* pending list is fetched once more
ConfirmAfterPostRefresh(res) ==
    Catch("Confirm failed: ",
          IF res.raised THEN Throw(res.err)
          ELSE Call(Request("GET", "/api/telegram/bot/confirms/", <<>>, NoPayload)))

\* faulty variant of ConfirmAfterPost: the success reply is sent whatever
\* the confirm call ended with
ConfirmAfterPostOptimistic(res) ==
    Catch("Confirm failed: ", Answer(Plain(ConfirmSentText)))

\* confirm after the confirm call
ConfirmAfterPost(res) ==
    Catch("Confirm failed: ",
          IF res.raised THEN Throw(res.err) ELSE Answer(Plain(ConfirmSentText)))

(***************************************************************************)
(* fallback                                                                *)
(***************************************************************************)
AddEquals == <<"/", "a", "d", "d", "=">>

AddSpace == <<"/", "a", "d", "d", " ">>

UnknownText == "Unknown command. Use /accounts, /codes, /confirm or /add=<code>."

LinkedText == "Telegram account linked successfully."

LinkCall(code, sender) ==
    Catch("Link failed: ",
          Call(Request("POST", "/api/telegram/bot/link", <<>>, CodePayload(code, sender))))

\* faulty variant of CodeAfterEquals: the text is split at its last '='
\* (text.rsplit('=', 1)[1])
RECURSIVE CodeAfterLastEquals(_)
CodeAfterLastEquals(text) ==
    LET after == SplitSep1(text, "=")[2]
    IN  IF Contains(after, "=") THEN CodeAfterLastEquals(after) ELSE after

\* text.split('=', 1)[1]
CodeAfterEquals(text) == SplitSep1(text, "=")[2]

\* fallback up to its await of call_backend; the two subscripts [1] are
\* outside the try
FallbackEntry(rawText, sender) ==
    LET text == Strip(rawText)
    IN  IF StartsWith(text, AddEquals)
        THEN IF Len(SplitSep1(text, "=")) < 2 THEN Throw("list index out of range")
             ELSE LinkCall(CodeAfterEquals(text), sender)
        ELSE IF StartsWith(text, AddSpace)
        THEN IF Len(SplitMax1(text)) < 2 THEN Throw("list index out of range")
             ELSE LinkCall(Strip(SplitMax1(text)[2]), sender)
        ELSE Answer(Plain(UnknownText))

FallbackResume(res) ==
    Catch("Link failed: ",
          IF res.raised THEN Throw(res.err) ELSE Answer(Plain(LinkedText)))

(***************************************************************************)
(* State: the configuration read at import, the position of main(), and    *)
(* one record per handler task (message slot).                             *)
(***************************************************************************)
Slots == 1..MaxConc

ChangeMe == <<"c", "h", "a", "n", "g", "e", "_", "m", "e">>

\* faulty variant of BOT_ENABLED: only an empty token disables the bot, the
\* placeholder change_me... counts as a credential
BotEnabledIfNonEmpty == BOT_TOKEN # <<>>

\* BOT_ENABLED = bool(BOT_TOKEN) and not BOT_TOKEN.startswith('change_me')
BOT_ENABLED == BOT_TOKEN # <<>> /\ ~StartsWith(BOT_TOKEN, ChangeMe)

IdleMsg ==
    [pc |-> "idle", text |-> <<>>, sender |-> [id |-> 0, username |-> None],
     handler |-> "", identifier |-> <<>>, calls |-> <<>>, resps |-> <<>>, replies |-> <<>>,
     escaped |-> FALSE]

Init ==
    /\ BOT_TOKEN \in Tokens
    /\ mainPc = "start"
    /\ msgs = [m \in Slots |-> IdleMsg]

\* where a handler is after a stretch of its code: suspended in the backend
\* call it issued, or finished (having answered, or with the exception
\* leaving the handler)
Advance(msg, outcome, awaitPc) ==
    CASE outcome.kind = "call" ->
           [msg EXCEPT !.pc = awaitPc, !.calls = Append(@, outcome.request)]
      [] outcome.kind = "answer" ->
           [msg EXCEPT !.pc = "done", !.replies = Append(@, outcome.reply)]
      [] OTHER ->
           [msg EXCEPT !.pc = "done", !.escaped = TRUE]

Set(m, msg) ==
    /\ msgs' = [msgs EXCEPT ![m] = msg]
    /\ UNCHANGED <<BOT_TOKEN, mainPc>>

\* the handler of slot m resumes from its backend call with response resp
Resumed(m, resp) == [msgs[m] EXCEPT !.resps = Append(@, resp)]

LastCall(m) == msgs[m].calls[Len(msgs[m].calls)]

\* main(): polling starts only with a usable token
main ==
    /\ mainPc = "start"
    /\ mainPc' = IF BOT_ENABLED THEN "polling" ELSE "sleeping"
    /\ UNCHANGED <<BOT_TOKEN, msgs>>

\* while True: await asyncio.sleep(3600)
MainSleep ==
    /\ mainPc = "sleeping"
    /\ UNCHANGED vars

\* polling delivers an inbound message, its text one of texts, to a free
\* handler task
ReceiveFrom(m, texts) ==
    /\ mainPc = "polling"
    /\ msgs[m].pc = "idle"
    /\ \E text \in texts, sender \in Senders :
         Set(m, [IdleMsg EXCEPT !.pc = "received", !.text = text, !.sender = sender])

Receive(m) == ReceiveFrom(m, Texts)

\* faulty variant of Routed: a handler starts only while no other handler
\* is suspended in a backend call (one backend session shared under a lock)
RoutedSerial(m, handler) ==
    /\ msgs[m].pc = "received"
    /\ Route(msgs[m].text) = handler
    /\ \A o \in Slots \ {m} : Len(msgs[o].calls) = Len(msgs[o].resps)

Routed(m, handler) ==
    /\ msgs[m].pc = "received"
    /\ Route(msgs[m].text) = handler

\* the message of slot m, handed to the handler its text routes to
Entered(m) == [msgs[m] EXCEPT !.handler = Route(msgs[m].text)]

start_with_param(m) ==
    /\ Routed(m, "start_with_param")
    /\ Set(m, Advance(Entered(m), StartWithParamEntry(msgs[m].text, msgs[m].sender),
                      "await_oauth"))

\* start_with_param resumes from its call, the answer one of responses
StartWithParamReturnFrom(m, responses) ==
    /\ msgs[m].pc = "await_oauth"
    /\ \E resp \in responses :
         Set(m, Advance(Resumed(m, resp), StartWithParamResume(call_backend(resp)), "none"))

StartWithParamReturn(m) == StartWithParamReturnFrom(m, ResponsesTo(LastCall(m).endpoint))

start_plain(m) ==
    /\ Routed(m, "start_plain")
    /\ Set(m, Advance(Entered(m), StartPlainEntry, "none"))

status(m) ==
    /\ Routed(m, "status")
    /\ Set(m, Advance(Entered(m), StatusEntry(msgs[m].sender), "await_status"))

\* status resumes from its call, the answer one of responses
StatusReturnFrom(m, responses) ==
    /\ msgs[m].pc = "await_status"
    /\ \E resp \in responses :
         Set(m, Advance(Resumed(m, resp), StatusResume(call_backend(resp)), "none"))

StatusReturn(m) == StatusReturnFrom(m, ResponsesTo(LastCall(m).endpoint))

accounts(m) ==
    /\ Routed(m, "accounts")
    /\ Set(m, Advance(Entered(m), AccountsEntry(msgs[m].sender), "await_accounts"))

\* accounts resumes from its call, the answer one of responses
AccountsReturnFrom(m, responses) ==
    /\ msgs[m].pc = "await_accounts"
    /\ \E resp \in responses :
         Set(m, Advance(Resumed(m, resp), AccountsResume(call_backend(resp)), "none"))

AccountsReturn(m) == AccountsReturnFrom(m, ResponsesTo(LastCall(m).endpoint))

codes(m) ==
    /\ Routed(m, "codes")
    /\ Set(m, Advance(Entered(m), CodesEntry(msgs[m].sender), "await_codes"))

\* codes resumes from its call, the answer one of responses
CodesReturnFrom(m, responses) ==
    /\ msgs[m].pc = "await_codes"
    /\ \E resp \in responses :
         Set(m, Advance(Resumed(m, resp), CodesResume(call_backend(resp)), "none"))

CodesReturn(m) == CodesReturnFrom(m, ResponsesTo(LastCall(m).endpoint))

confirm(m) ==
    /\ Routed(m, "confirm")
    /\ LET entry == ConfirmEntry(msgs[m].text, msgs[m].sender)
           msg == IF entry.kind = "call"
                  THEN [Entered(m) EXCEPT !.identifier = IdentifierOf(msgs[m].text)]
                  ELSE Entered(m)
       IN  Set(m, Advance(msg, entry, "await_confirms"))

\* faulty variant of ConfirmPendingReturnFrom: the pending list is kept in a
\* module-level cache that every handler fills and reads, so the identifier
\* is resolved against the list some other /confirm fetched
ConfirmPendingReturnFromCache(m, responses) ==
    /\ msgs[m].pc = "await_confirms"
    /\ \E resp \in responses, o \in Slots :
         LET cached == IF msgs[o].handler = "confirm" /\ msgs[o].resps # <<>>
                       THEN msgs[o].resps[1] ELSE resp
         IN  Set(m, Advance(Resumed(m, resp),
                            ConfirmAfterGet(call_backend(cached), msgs[m].identifier,
                                            msgs[m].sender),
                            "await_confirm"))

\* confirm resumes from the pending lookup, the answer one of responses
ConfirmPendingReturnFrom(m, responses) ==
    /\ msgs[m].pc = "await_confirms"
    /\ \E resp \in responses :
         Set(m, Advance(Resumed(m, resp),
                        ConfirmAfterGet(call_backend(resp), msgs[m].identifier, msgs[m].sender),
                        "await_confirm"))

ConfirmPendingReturn(m) == ConfirmPendingReturnFrom(m, ResponsesTo(LastCall(m).endpoint))

\* confirm resumes from the confirm call, the answer one of responses
ConfirmReturnFrom(m, responses) ==
    /\ msgs[m].pc = "await_confirm"
    /\ \E resp \in responses :
         Set(m, Advance(Resumed(m, resp), ConfirmAfterPost(call_backend(resp)), "none"))

ConfirmReturn(m) == ConfirmReturnFrom(m, ResponsesTo(LastCall(m).endpoint))

fallback(m) ==
    /\ Routed(m, "fallback")
    /\ Set(m, Advance(Entered(m), FallbackEntry(msgs[m].text, msgs[m].sender), "await_link"))

\* fallback resumes from the link call, the answer one of responses
FallbackReturnFrom(m, responses) ==
    /\ msgs[m].pc = "await_link"
    /\ \E resp \in responses :
         Set(m, Advance(Resumed(m, resp), FallbackResume(call_backend(resp)), "none"))

FallbackReturn(m) == FallbackReturnFrom(m, ResponsesTo(LastCall(m).endpoint))

\* the handler task has ended: the message is discarded, the slot is free
Discard(m) ==
    /\ msgs[m].pc = "done"
    /\ Set(m, IdleMsg)

Handle(m) ==
    \/ Receive(m)
    \/ start_with_param(m) \/ StartWithParamReturn(m)
    \/ start_plain(m)
    \/ status(m) \/ StatusReturn(m)
    \/ accounts(m) \/ AccountsReturn(m)
    \/ codes(m) \/ CodesReturn(m)
    \/ confirm(m) \/ ConfirmPendingReturn(m) \/ ConfirmReturn(m)
    \/ fallback(m) \/ FallbackReturn(m)
    \/ Discard(m)

\* the dispatch of one message at a time (handler tasks share no state)
Next == main \/ MainSleep \/ Handle(1)

Spec == Init /\ [][Next]_vars

(***************************************************************************)
(* Concurrent dispatch: polling hands every update to a task of its own,   *)
(* so up to MaxConc handlers are in flight at once and their steps         *)
(* interleave at the awaits. The inputs are a few texts, one per handler,  *)
(* and a few backend answers.                                              *)
(***************************************************************************)
ConcTexts ==
    { <<"/", "s", "t", "a", "r", "t">>,
      <<"/", "s", "t", "a", "r", "t", " ">> \o LoginPrefix \o <<"a">>,
      <<"/", "s", "t", "a", "t", "u", "s">>,
      <<"/", "a", "c", "c", "o", "u", "n", "t", "s">>,
      <<"/", "c", "o", "d", "e", "s">>,
      <<"/", "c", "o", "n", "f", "i", "r", "m", " ", "a">>,
      <<"/", "a", "d", "d", "=", "a">> }

\* the item lists an endpoint answers with: one item each
ConcLists(endpoint) ==
    CASE endpoint = "/api/telegram/bot/confirms/" ->
           {<<item>> : item \in {c \in ConfirmItems :
                                   /\ {"account_id", "confirmation_id"} \subseteq c.keys
                                   /\ c.confirmation_id = <<"a">>}}
      [] endpoint = "/api/telegram/bot/accounts/" ->
           {<<item>> : item \in {a \in AccountItems : "steamid" \in a.keys}}
      [] endpoint = "/api/telegram/bot/codes/" ->
           {<<item>> : item \in {c \in CodeItems : "code" \in c.keys}}
      [] OTHER -> {}

\* the 20 s timeout, a success without items, a success with a list of one
\* item
ConcResponsesTo(endpoint) ==
    {[net |-> "timeout", status |-> 0, body |-> OtherBody("empty")]}
    \cup {[net |-> "ok", status |-> 200, body |-> ObjectBody({}, None, <<>>)]}
    \cup {[net |-> "ok", status |-> 200, body |-> ObjectBody({"items"}, None, l)] :
             l \in ConcLists(endpoint)}

\* a step of slot m: a message arrives, or its handler task moves
HandleConc(m) ==
    \/ ReceiveFrom(m, ConcTexts)
    \/ start_with_param(m)
    \/ StartWithParamReturnFrom(m, ConcResponsesTo(LastCall(m).endpoint))
    \/ start_plain(m)
    \/ status(m)
    \/ StatusReturnFrom(m, ConcResponsesTo(LastCall(m).endpoint))
    \/ accounts(m)
    \/ AccountsReturnFrom(m, ConcResponsesTo(LastCall(m).endpoint))
    \/ codes(m)
    \/ CodesReturnFrom(m, ConcResponsesTo(LastCall(m).endpoint))
    \/ confirm(m)
    \/ ConfirmPendingReturnFrom(m, ConcResponsesTo(LastCall(m).endpoint))
    \/ ConfirmReturnFrom(m, ConcResponsesTo(LastCall(m).endpoint))
    \/ fallback(m)
    \/ FallbackReturnFrom(m, ConcResponsesTo(LastCall(m).endpoint))
    \/ Discard(m)

NextConc == main \/ MainSleep \/ \E m \in Slots : HandleConc(m)

SpecConc == Init /\ [][NextConc]_vars

(***************************************************************************)
(* Vocabulary of the properties.                                           *)
(***************************************************************************)
\* the handler task of slot m has started
Started(m) == msgs[m].pc \notin {"idle", "received"}

Finished(m) == msgs[m].pc = "done"

\* the text f'...: ' each handler puts before the error it renders
FailurePrefix(handler) ==
    CASE handler = "start_with_param" -> "Login failed: "
      [] handler = "status" -> "Backend connection error: "
      [] handler = "accounts" -> "Failed to fetch accounts: "
      [] handler = "codes" -> "Failed to fetch codes: "
      [] handler = "confirm" -> "Confirm failed: "
      [] OTHER -> "Link failed: "

\* an HTTP response with an error status
IsHttpError(resp) == resp.net = "ok" /\ resp.status >= 400

\* the backend call that got response resp raised, whatever the reason
CallFailed(resp) ==
    \/ resp.net # "ok"
    \/ resp.status >= 400
    \/ resp.body.kind = "text"

ConfirmWord == <<"/", "c", "o", "n", "f", "i", "r", "m">>

\* the text is /confirm followed by nothing but whitespace
BareConfirm(text) ==
    /\ StartsWith(text, ConfirmWord)
    /\ \A i \in (Len(ConfirmWord) + 1)..Len(text) : text[i] = " "

(***************************************************************************)
(* C1: for every inbound message, whatever its text and whatever the       *)
(* backend answers, the handler sends exactly one reply: there is never    *)
(* more than one, a handler still waiting for the backend has sent none,   *)
(* and a handler that has finished has sent exactly one.                   *)
(***************************************************************************)
C1_ExactlyOneReply ==
    \A m \in Slots :
        /\ Len(msgs[m].replies) <= 1
        /\ Finished(m) => Len(msgs[m].replies) = 1
        /\ ~Finished(m) => Len(msgs[m].replies) = 0

\* a /confirm whose pending lookup succeeded and whose confirm call failed
\* has made two backend calls and sent one reply
C1_Witness ==
    \E m \in Slots :
        /\ Finished(m)
        /\ Len(msgs[m].calls) = 2
        /\ Len(msgs[m].resps) = 2
        /\ CallFailed(msgs[m].resps[2])
        /\ Len(msgs[m].replies) = 1

(***************************************************************************)
(* C2: no error escapes a handler: no exception leaves a handler, and a    *)
(* handler whose backend call raised, or whose processing of a successful  *)
(* answer raised (a body that is not a JSON object where items are read,   *)
(* an item without the fields read), has answered with its failure reply.  *)
(***************************************************************************)
\* a successful answer whose body is not a JSON object
NonObjectSuccess(resp) == ~CallFailed(resp) /\ resp.body.kind # "object"

\* a successful answer to /accounts with an item that lacks id or alias
AccountItemLacksField(resp) ==
    /\ ~CallFailed(resp)
    /\ resp.body.kind = "object"
    /\ \E i \in 1..Len(resp.body.items) : ~({"id", "alias"} \subseteq resp.body.items[i].keys)

\* a successful answer to /codes with an item that lacks alias or code
CodeItemLacksField(resp) ==
    /\ ~CallFailed(resp)
    /\ resp.body.kind = "object"
    /\ \E i \in 1..Len(resp.body.items) : ~({"alias", "code"} \subseteq resp.body.items[i].keys)

\* a successful answer to the pending lookup of /confirm <id> (no ':' in
\* the id) whose first item lacks confirmation_id
FirstPendingLacksId(m, resp) ==
    /\ ~CallFailed(resp)
    /\ resp.body.kind = "object"
    /\ resp.body.items # <<>>
    /\ "confirmation_id" \notin resp.body.items[1].keys
    /\ \A i \in 1..Len(msgs[m].identifier) : msgs[m].identifier[i] # ":"

\* the last backend call of slot m raised, or the handler's processing of
\* its answer did
ErrorInHandler(m) ==
    LET handler == msgs[m].handler
        resp == msgs[m].resps[Len(msgs[m].resps)]
        lookup == handler \in {"accounts", "codes"}
                  \/ (handler = "confirm" /\ Len(msgs[m].resps) = 1)
    IN  /\ msgs[m].resps # <<>>
        /\ \/ CallFailed(resp)
           \/ lookup /\ NonObjectSuccess(resp)
           \/ handler = "accounts" /\ AccountItemLacksField(resp)
           \/ handler = "codes" /\ CodeItemLacksField(resp)
           \/ handler = "confirm" /\ lookup /\ FirstPendingLacksId(m, resp)

C2_NoErrorEscapes ==
    \A m \in Slots :
        /\ ~msgs[m].escaped
        /\ Started(m) /\ ErrorInHandler(m) =>
               /\ Finished(m)
               /\ Len(msgs[m].replies) = 1
               /\ msgs[m].replies[1].kind = "failure"
               /\ msgs[m].replies[1].head = FailurePrefix(msgs[m].handler)

\* /accounts answered 200 with an item that has no alias: the KeyError is
\* rendered as the failure reply
C2_Witness ==
    \E m \in Slots :
        /\ Finished(m)
        /\ msgs[m].handler = "accounts"
        /\ AccountItemLacksField(msgs[m].resps[1])
        /\ msgs[m].replies = <<Failure("Failed to fetch accounts: ", "'alias'")>>

(***************************************************************************)
(* C3: a /confirm message with no trailing content (nothing, or only       *)
(* whitespace, after the command) makes no backend call and is answered    *)
(* with the usage text.                                                    *)
(***************************************************************************)
C3_BareConfirmUsage ==
    \A m \in Slots :
        Started(m) /\ BareConfirm(msgs[m].text) =>
            /\ Finished(m)
            /\ msgs[m].calls = <<>>
            /\ msgs[m].replies = <<Plain(UsageText)>>

\* /confirm followed by two spaces has been answered with the usage text
C3_Witness ==
    \E m \in Slots :
        /\ Finished(m)
        /\ msgs[m].text = ConfirmWord \o <<" ", " ">>
        /\ msgs[m].calls = <<>>
        /\ msgs[m].replies = <<Plain(UsageText)>>

(***************************************************************************)
(* Vocabulary of the confirmation properties.                              *)
(***************************************************************************)
HasColon(identifier) == \E i \in 1..Len(identifier) : identifier[i] = ":"

\* the item is the one the identifier names: bare form, confirmation id
\* equal to the identifier; account:id form, both parts equal, the parts
\* being what stands before and after the first ':'
Names(identifier, item) ==
    IF HasColon(identifier)
    THEN \E k \in 1..Len(identifier) :
            /\ identifier[k] = ":"
            /\ \A j \in 1..(k - 1) : identifier[j] # ":"
            /\ "account_id" \in item.keys
            /\ IntToStr(item.account_id) = SubSeq(identifier, 1, k - 1)
            /\ "confirmation_id" \in item.keys
            /\ item.confirmation_id = SubSeq(identifier, k + 1, Len(identifier))
    ELSE "confirmation_id" \in item.keys /\ item.confirmation_id = identifier

WellFormed(items) ==
    \A i \in 1..Len(items) : {"account_id", "confirmation_id"} \subseteq items[i].keys

\* the pending lookup of slot m was answered with a list of items
PendingListed(m) ==
    /\ msgs[m].handler = "confirm"
    /\ msgs[m].resps # <<>>
    /\ ~CallFailed(msgs[m].resps[1])
    /\ msgs[m].resps[1].body.kind = "object"
    /\ "items" \in msgs[m].resps[1].body.keys

Pending(m) == msgs[m].resps[1].body.items

\* the body of the confirm call for an item of the pending list
ConfirmBodyOf(item, sender) ==
    [kind |-> "confirm", telegramUserId |-> IntToStr(sender.id),
     accountId |-> item.account_id, confirmationId |-> item.confirmation_id,
     nonce |-> IF "nonce" \in item.keys THEN item.nonce ELSE None]

ConfirmPosted(m) ==
    /\ Len(msgs[m].calls) = 2
    /\ msgs[m].calls[2].method = "POST"
    /\ msgs[m].calls[2].endpoint = "/api/telegram/bot/confirm"

(***************************************************************************)
(* C4: confirmation resolution is first-match by list order: whenever the  *)
(* confirm call is made, the item it carries is the earliest item of the   *)
(* pending list that the identifier names; and with a list of well-formed  *)
(* items of which one is named, the confirm call is made.                  *)
(***************************************************************************)
C4_FirstMatch ==
    \A m \in Slots :
        /\ Len(msgs[m].calls) >= 2 =>
               /\ PendingListed(m)
               /\ ConfirmPosted(m)
               /\ \E k \in 1..Len(Pending(m)) :
                      /\ Names(msgs[m].identifier, Pending(m)[k])
                      /\ \A j \in 1..(k - 1) : ~Names(msgs[m].identifier, Pending(m)[j])
                      /\ msgs[m].calls[2].payload = ConfirmBodyOf(Pending(m)[k], msgs[m].sender)
        /\ ( /\ PendingListed(m)
             /\ WellFormed(Pending(m))
             /\ \E k \in 1..Len(Pending(m)) : Names(msgs[m].identifier, Pending(m)[k]) )
           => ConfirmPosted(m)

\* two pending items share confirmation id "a" under accounts 1 and 2, in
\* that order: /confirm a has sent account 1
C4_Witness ==
    \E m \in Slots :
        /\ PendingListed(m)
        /\ msgs[m].identifier = <<"a">>
        /\ Len(Pending(m)) = 2
        /\ Pending(m)[1].account_id = 1 /\ Pending(m)[1].confirmation_id = <<"a">>
        /\ Pending(m)[2].account_id = 2 /\ Pending(m)[2].confirmation_id = <<"a">>
        /\ ConfirmPosted(m)
        /\ msgs[m].calls[2].payload.accountId = 1

(***************************************************************************)
(* C5: with an identifier of the form account:id, an account mismatch is   *)
(* not ignored.                                                            *)
(***************************************************************************)
\* the pending list of slot m was obtained, its items are well formed, the
\* identifier has the form account:id and names none of them
NoneNamed(m) ==
    /\ Finished(m)
    /\ PendingListed(m)
    /\ WellFormed(Pending(m))
    /\ HasColon(msgs[m].identifier)
    /\ \A k \in 1..Len(Pending(m)) : ~Names(msgs[m].identifier, Pending(m)[k])

NotFoundAndNoPost(m) ==
    /\ msgs[m].replies = <<Plain(NotFoundText)>>
    /\ Len(msgs[m].calls) = 1

\* C5 as stated: whenever no pending item has both the account id and the
\* confirmation id of an account:id identifier, the handler replies that
\* the id was not found and makes no confirm call.
C5_AsStated ==
    \A m \in Slots : NoneNamed(m) => NotFoundAndNoPost(m)

\* C5 amended: the same, for a pending list that is not empty (an empty
\* list is answered with the no-pending-confirmations text instead).
C5_AccountMismatchNotFound ==
    \A m \in Slots : NoneNamed(m) /\ Pending(m) # <<>> => NotFoundAndNoPost(m)

\* pending is the one item (1, "a") and the message is /confirm 2:a
C5_Witness ==
    \E m \in Slots :
        /\ NoneNamed(m)
        /\ msgs[m].identifier = <<"2", ":", "a">>
        /\ Len(Pending(m)) = 1
        /\ Pending(m)[1].account_id = 1 /\ Pending(m)[1].confirmation_id = <<"a">>
        /\ NotFoundAndNoPost(m)

(***************************************************************************)
(* C6: when the pending lookup returns an empty list, /confirm <id> is     *)
(* answered with the no-pending-confirmations text, not the not-found      *)
(* text, and the confirm call is never made.                               *)
(***************************************************************************)
C6_EmptyPending ==
    \A m \in Slots :
        PendingListed(m) /\ Pending(m) = <<>> =>
            /\ msgs[m].identifier # <<>>
            /\ Finished(m)
            /\ msgs[m].replies = <<Plain(NoPendingText)>>
            /\ Len(msgs[m].calls) = 1
            /\ msgs[m].calls[1].method = "GET"

\* /confirm 1:a against an empty pending list
C6_Witness ==
    \E m \in Slots :
        /\ PendingListed(m)
        /\ Pending(m) = <<>>
        /\ msgs[m].identifier = <<"1", ":", "a">>
        /\ msgs[m].replies = <<Plain(NoPendingText)>>

(***************************************************************************)
(* C7: a response with HTTP status >= 400 is a failure whatever its body:  *)
(* call_backend raises for it, the handler makes no further backend call   *)
(* and its one reply is its failure reply, never a success reply.          *)
(***************************************************************************)
C7_ErrorStatusIsFailure ==
    \A m \in Slots :
        \A i \in 1..Len(msgs[m].resps) :
            IsHttpError(msgs[m].resps[i]) =>
                /\ call_backend(msgs[m].resps[i]).raised
                /\ i = Len(msgs[m].resps)
                /\ Len(msgs[m].calls) = i
                /\ Finished(m)
                /\ Len(msgs[m].replies) = 1
                /\ msgs[m].replies[1].kind = "failure"
                /\ msgs[m].replies[1].head = FailurePrefix(msgs[m].handler)

\* /status answered 400 with a JSON array, and /codes answered 404 with an
\* empty body, have each been answered with the failure reply
C7_Witness ==
    \E m \in Slots :
        /\ Finished(m)
        /\ msgs[m].handler \in {"status", "codes"}
        /\ msgs[m].resps[1].net = "ok"
        /\ \/ msgs[m].resps[1].status = 400 /\ msgs[m].resps[1].body.kind = "array"
           \/ msgs[m].resps[1].status = 404 /\ msgs[m].resps[1].body.kind = "empty"
        /\ msgs[m].replies[1].kind = "failure"

(***************************************************************************)
(* C8: when the backend answers with status >= 400 and a JSON object       *)
(* carrying a message field, the reply is the handler's failure prefix     *)
(* followed by exactly that message.                                       *)
(***************************************************************************)
C8_ErrorMessageRendered ==
    \A m \in Slots :
        LET resp == msgs[m].resps[Len(msgs[m].resps)]
        IN  ( /\ msgs[m].resps # <<>>
              /\ IsHttpError(resp)
              /\ resp.body.kind = "object"
              /\ "message" \in resp.body.keys )
            => msgs[m].replies =
                   <<Failure(FailurePrefix(msgs[m].handler), resp.body.message)>>

\* /add=a answered 404 {"message": "no such code"}
C8_Witness ==
    \E m \in Slots :
        /\ msgs[m].text = AddEquals \o <<"a">>
        /\ msgs[m].resps # <<>>
        /\ msgs[m].resps[1].status = 404
        /\ msgs[m].resps[1].body.kind = "object"
        /\ "message" \in msgs[m].resps[1].body.keys
        /\ msgs[m].replies = <<Failure("Link failed: ", "no such code")>>

(***************************************************************************)
(* C9: a response with status 200 whose body cannot be parsed as JSON is a *)
(* failure: the handler sends its failure reply, never its success reply,  *)
(* and makes no further backend call.                                      *)
(***************************************************************************)
Unparseable200(resp) == resp.net = "ok" /\ resp.status = 200 /\ resp.body.kind = "text"

AfterAddEquals(text) == SubSeq(text, Len(AddEquals) + 1, Len(text))

\* slot m has made the one link call with this code, and no other call,
\* and has sent one reply once it has finished
LinkedOnceWith(m, code) ==
    /\ Len(msgs[m].calls) = 1
    /\ msgs[m].calls[1].method = "POST"
    /\ msgs[m].calls[1].endpoint = "/api/telegram/bot/link"
    /\ msgs[m].calls[1].payload =
           [kind |-> "code", code |-> code,
            telegramUserId |-> IntToStr(msgs[m].sender.id),
            username |-> msgs[m].sender.username]
    /\ Len(msgs[m].replies) = (IF Finished(m) THEN 1 ELSE 0)

\* C10 as stated: the code sent is the substring after the first '='.
C10_AsStated ==
    \A m \in Slots :
        Started(m) /\ StartsWith(msgs[m].text, AddEquals) =>
            LinkedOnceWith(m, AfterAddEquals(msgs[m].text))

\* C10 amended: the code sent is the substring after the first '=' without
\* its trailing whitespace (the handler strips the text first).
C10_AddEqualsLinksOnce ==
    \A m \in Slots :
        Started(m) /\ StartsWith(msgs[m].text, AddEquals) =>
            LinkedOnceWith(m, RStrip(AfterAddEquals(msgs[m].text)))

\* /add=a followed by a space, from sender 42, has been answered after one
\* link call carrying the code a
C10_Witness ==
    \E m \in Slots :
        /\ Finished(m)
        /\ msgs[m].text = AddEquals \o <<"a", " ">>
        /\ msgs[m].sender.id = 42
        /\ LinkedOnceWith(m, <<"a">>)
        /\ msgs[m].calls[1].payload.telegramUserId = <<"4", "2">>

(***************************************************************************)
(* C11: a /codes message whose codes lookup returns an empty items list is *)
(* answered with the no-codes text after exactly one backend call, the     *)
(* codes lookup for the sender, and no further backend call.               *)
(***************************************************************************)
NoCodesText == "No linked accounts or codes unavailable."

\* the codes lookup of slot m was answered with an empty list of items
EmptyCodes(m) ==
    /\ msgs[m].handler = "codes"
    /\ msgs[m].resps # <<>>
    /\ ~CallFailed(msgs[m].resps[1])
    /\ msgs[m].resps[1].body.kind = "object"
    /\ "items" \in msgs[m].resps[1].body.keys
    /\ msgs[m].resps[1].body.items = <<>>

C11_EmptyCodes ==
    \A m \in Slots :
        EmptyCodes(m) =>
            /\ Finished(m)
            /\ Len(msgs[m].calls) = 1
            /\ Len(msgs[m].resps) = 1
            /\ msgs[m].calls[1].method = "GET"
            /\ msgs[m].calls[1].endpoint = "/api/telegram/bot/codes/"
            /\ msgs[m].calls[1].suffix = IntToStr(msgs[m].sender.id)
            /\ msgs[m].replies = <<Plain(NoCodesText)>>

\* /codes from sender 42 answered 200 {"items": []}
C11_Witness ==
    \E m \in Slots :
        /\ EmptyCodes(m)
        /\ msgs[m].sender.id = 42
        /\ msgs[m].resps[1].status = 200
        /\ msgs[m].calls[1].suffix = <<"4", "2">>
        /\ msgs[m].replies = <<Plain(NoCodesText)>>

(***************************************************************************)
(* C12: for every start command whose argument is login_X, the code sent   *)
(* to the oauth endpoint is exactly X: what follows the first login_ of    *)
(* the argument, a second login_ and trailing whitespace included, the     *)
(* argument being what follows the command and the whitespace after it.    *)
(***************************************************************************)
StartWord == <<"/", "s", "t", "a", "r", "t">>

\* index of the first character of s from position i that is not
\* whitespace, Len(s) + 1 when there is none
RECURSIVE FirstNonSpace(_, _)
FirstNonSpace(s, i) ==
    IF i > Len(s) THEN Len(s) + 1
    ELSE IF ~IsSpace(s[i]) THEN i ELSE FirstNonSpace(s, i + 1)

\* what stands in the text after /start and the whitespace that follows it
StartArgument(text) == SubSeq(text, FirstNonSpace(text, Len(StartWord) + 1), Len(text))

\* the text is /start, whitespace, and an argument that begins with login_
IsLoginStart(text) ==
    /\ StartsWith(text, StartWord \o <<" ">>)
    /\ StartsWith(StartArgument(text), LoginPrefix)

\* the X of an argument login_X
AfterLoginPrefix(text) ==
    SubSeq(StartArgument(text), Len(LoginPrefix) + 1, Len(StartArgument(text)))

C12_LoginCodeExact ==
    \A m \in Slots :
        Started(m) /\ IsLoginStart(msgs[m].text) =>
            /\ msgs[m].handler = "start_with_param"
            /\ Len(msgs[m].calls) = 1
            /\ msgs[m].calls[1].method = "POST"
            /\ msgs[m].calls[1].endpoint = "/api/telegram/bot/oauth"
            /\ msgs[m].calls[1].payload.code = AfterLoginPrefix(msgs[m].text)

\* "/start login_login_" has sent the code "login_"
C12_Witness ==
    \E m \in Slots :
        /\ Started(m)
        /\ msgs[m].text = StartWord \o <<" ">> \o LoginPrefix \o LoginPrefix
        /\ msgs[m].calls[1].endpoint = "/api/telegram/bot/oauth"
        /\ msgs[m].calls[1].payload.code = LoginPrefix

(***************************************************************************)
(* C13: no backend call is retried: within the handling of one message no  *)
(* request is issued twice, every call but the last has been answered, and *)
(* a call that failed (connection failure, timeout, status >= 400, body    *)
(* that is not JSON) is the last call of its message: the handler has      *)
(* finished with its failure reply; a failed pending lookup is never       *)
(* followed by a POST to the confirm endpoint.                             *)
(***************************************************************************)
C13_NoRetry ==
    \A m \in Slots :
        /\ \A i, j \in 1..Len(msgs[m].calls) : i # j => msgs[m].calls[i] # msgs[m].calls[j]
        /\ Len(msgs[m].resps) <= Len(msgs[m].calls)
        /\ Len(msgs[m].calls) <= Len(msgs[m].resps) + 1
        /\ \A i \in 1..Len(msgs[m].resps) :
               CallFailed(msgs[m].resps[i]) =>
                   /\ Len(msgs[m].resps) = i
                   /\ Len(msgs[m].calls) = i
                   /\ (msgs[m].handler = "confirm" /\ i = 1) => ~ConfirmPosted(m)
                   /\ Finished(m)
                   /\ msgs[m].replies =
                          <<Failure(FailurePrefix(msgs[m].handler),
                                    call_backend(msgs[m].resps[i]).err)>>

\* the pending lookup of /confirm a timed out: one GET, no POST, and the
\* failure reply
C13_Witness ==
    \E m \in Slots :
        /\ msgs[m].handler = "confirm"
        /\ msgs[m].identifier = <<"a">>
        /\ Len(msgs[m].resps) = 1
        /\ msgs[m].resps[1].net = "timeout"
        /\ Len(msgs[m].calls) = 1
        /\ msgs[m].calls[1].method = "GET"
        /\ Finished(m)
        /\ msgs[m].replies[1].kind = "failure"
        /\ msgs[m].replies[1].head = "Confirm failed: "

(***************************************************************************)
(* C14: the number of backend calls a handler makes for one message.       *)
(***************************************************************************)
\* C14 as stated: every handler makes at most one backend call per inbound
\* message, whatever the message and the backend's answers.
C14_AsStated ==
    \A m \in Slots : Len(msgs[m].calls) <= 1

\* C14 amended: every handler makes at most two backend calls per inbound
\* message, and only confirm makes two, the pending lookup followed by the
\* POST to the confirm endpoint; every other handler makes at most one, and
\* start_plain makes none.
C14_AtMostTwoCalls ==
    \A m \in Slots :
        /\ Len(msgs[m].calls) <= 2
        /\ msgs[m].handler # "confirm" => Len(msgs[m].calls) <= 1
        /\ msgs[m].handler = "start_plain" => msgs[m].calls = <<>>
        /\ Len(msgs[m].calls) = 2 =>
               /\ msgs[m].calls[1].method = "GET"
               /\ msgs[m].calls[1].endpoint = "/api/telegram/bot/confirms/"
               /\ msgs[m].calls[2].method = "POST"
               /\ msgs[m].calls[2].endpoint = "/api/telegram/bot/confirm"

\* /confirm a whose pending lookup listed the item and whose confirm call
\* returned: the handler has made two calls and sent the success reply
C14_Witness ==
    \E m \in Slots :
        /\ Finished(m)
        /\ msgs[m].handler = "confirm"
        /\ msgs[m].identifier = <<"a">>
        /\ Len(msgs[m].calls) = 2
        /\ msgs[m].calls[1].method = "GET"
        /\ msgs[m].calls[2].method = "POST"
        /\ msgs[m].replies = <<Plain(ConfirmSentText)>>

(***************************************************************************)
(* C15: handlers of different messages run independently: in every state   *)
(* in which one message's backend call is hung (issued and not yet         *)
(* answered or timed out), every other slot can take its next step: a      *)
(* message can arrive, a received message is handed to its handler, a      *)
(* handler suspended in its own call resumes when that call is answered, a *)
(* finished handler ends; and a step of one handler changes nothing of any *)
(* other message.                                                          *)
(***************************************************************************)
\* the last backend call of slot m has been issued and is not answered
Hung(m) == Len(msgs[m].calls) = Len(msgs[m].resps) + 1

C15_NotBlocked ==
    \A b \in Slots : (\E a \in Slots \ {b} : Hung(a)) => ENABLED HandleConc(b)

C15_OneSlotPerStep ==
    \A a, b \in Slots : a # b /\ msgs[a]' # msgs[a] => msgs[b]' = msgs[b]

C15_Independent == [] C15_NotBlocked /\ [][C15_OneSlotPerStep]_vars

\* sender 42's /status is hung while the same sender's /confirm a has made
\* its two calls and has been answered with the success reply
C15_Witness ==
    \E a, b \in Slots :
        /\ a # b
        /\ msgs[a].handler = "status" /\ msgs[a].sender.id = 42
        /\ Hung(a)
        /\ msgs[a].replies = <<>>
        /\ msgs[b].handler = "confirm" /\ msgs[b].sender.id = 42
        /\ Finished(b)
        /\ Len(msgs[b].resps) = 2
        /\ msgs[b].replies = <<Plain(ConfirmSentText)>>

(***************************************************************************)
(* C16: every backend call carries the same fixed token header: the value  *)
(* sent is the configured BOT_TOKEN on every call of every message, so it  *)
(* is identical across calls and does not depend on the message's text,    *)
(* the sender's id or the sender's handle.                                 *)
(***************************************************************************)
C16_FixedToken ==
    \A m, n \in Slots :
        \A i \in 1..Len(msgs[m].calls), j \in 1..Len(msgs[n].calls) :
            /\ msgs[m].calls[i].token = BOT_TOKEN
            /\ msgs[m].calls[i].token = msgs[n].calls[j].token

\* /status from sender 7 (no handle) and /confirm a from sender 42 (handle
\* alice) are in flight, three calls in all, each with the same token
C16_Witness ==
    \E a, b \in Slots :
        /\ msgs[a].handler = "status" /\ msgs[a].sender.id = 7
        /\ msgs[a].sender.username = None
        /\ msgs[b].handler = "confirm" /\ msgs[b].sender.id = 42
        /\ msgs[b].sender.username = "alice"
        /\ Len(msgs[a].calls) = 1 /\ Len(msgs[b].calls) = 2
        /\ msgs[a].calls[1].token = BOT_TOKEN
        /\ msgs[b].calls[1].token = BOT_TOKEN
        /\ msgs[b].calls[2].token = BOT_TOKEN

(***************************************************************************)
(* C17: with no valid credential (BOT_TOKEN empty or beginning with        *)
(* change_me) the enabled flag is false from the start and never changes,  *)
(* and the process idles for ever: main() goes from its start to the sleep *)
(* loop and stays there; polling never starts, no message is received, no  *)
(* reply is sent, no backend call is made.                                 *)
(***************************************************************************)
NoCredential == BOT_TOKEN = <<>> \/ StartsWith(BOT_TOKEN, ChangeMe)

C17_NoChatIO ==
    NoCredential =>
        /\ ~BOT_ENABLED
        /\ mainPc \in {"start", "sleeping"}
        /\ \A m \in Slots : msgs[m] = IdleMsg

C17_StaysIdle ==
    /\ BOT_ENABLED' = BOT_ENABLED
    /\ NoCredential /\ mainPc = "start" => mainPc' = "sleeping"
    /\ mainPc = "sleeping" => mainPc' = "sleeping" /\ msgs' = msgs

C17_DisabledIdles == [] C17_NoChatIO /\ [][C17_StaysIdle]_vars

\* the token is change_me_now and main() is in its sleep loop
C17_Witness ==
    /\ BOT_TOKEN = ChangeMe \o <<"_", "n", "o", "w">>
    /\ ~BOT_ENABLED
    /\ mainPc = "sleeping"
    /\ \A m \in Slots : msgs[m] = IdleMsg

(***************************************************************************)
(* C18: start commands whose argument does not begin with login_.          *)
(***************************************************************************)
GreetingText ==
    "SteamGuard Bot is active. Use /accounts, /codes or /add=<code> from web settings."

HelpText == "SteamGuard Bot ready. Commands: ..."

\* the text is the start command, alone or followed by whitespace and an
\* argument, and the argument does not begin with login_
IsOtherStart(text) ==
    /\ StartsWith(text, StartWord)
    /\ Len(text) > Len(StartWord) => IsSpace(text[Len(StartWord) + 1])
    /\ ~StartsWith(StartArgument(text), LoginPrefix)

\* C18 as stated: every start command whose argument does not begin with
\* login_, a start command without argument included, is handled as
\* StartPlain: it is answered with the one static greeting and makes no
\* backend call.
C18_AsStated ==
    \A m \in Slots :
        Started(m) /\ IsOtherStart(msgs[m].text) =>
            /\ Finished(m)
            /\ msgs[m].calls = <<>>
            /\ msgs[m].replies = <<Plain(GreetingText)>>

\* C18 amended: such a command makes no backend call and is answered with
\* a static reply: the greeting when there is no argument, the command
\* list of start_with_param when there is one.
C18_StaticReplyNoCall ==
    \A m \in Slots :
        Started(m) /\ IsOtherStart(msgs[m].text) =>
            /\ Finished(m)
            /\ msgs[m].calls = <<>>
            /\ msgs[m].replies =
                   <<Plain(IF StartArgument(msgs[m].text) = <<>>
                           THEN GreetingText ELSE HelpText)>>

\* "/start a" has been answered with the command list, without a call
C18_Witness ==
    \E m \in Slots :
        /\ Finished(m)
        /\ msgs[m].text = StartWord \o <<" ", "a">>
        /\ msgs[m].handler = "start_with_param"
        /\ msgs[m].calls = <<>>
        /\ msgs[m].replies = <<Plain(HelpText)>>

(***************************************************************************)
(* C19: the confirm dispatch follows a fixed order and a reply is final:   *)
(* the POST to the confirm endpoint is the second call of a message whose  *)
(* first call, the pending lookup, was answered with a list that is not    *)
(* empty and in which the identifier names an item; the confirmation-sent  *)
(* reply is sent only when that POST has returned without failure; and a   *)
(* handler that has sent its reply has no call outstanding and makes no    *)
(* further call.                                                           *)
(***************************************************************************)
C19_Order ==
    \A m \in Slots :
        /\ \A i \in 1..Len(msgs[m].calls) :
               msgs[m].calls[i].endpoint = "/api/telegram/bot/confirm" =>
                   /\ i = 2
                   /\ msgs[m].calls[1].method = "GET"
                   /\ msgs[m].calls[1].endpoint = "/api/telegram/bot/confirms/"
                   /\ PendingListed(m)
                   /\ Pending(m) # <<>>
                   /\ \E k \in 1..Len(Pending(m)) : Names(msgs[m].identifier, Pending(m)[k])
        /\ (\E r \in 1..Len(msgs[m].replies) : msgs[m].replies[r] = Plain(ConfirmSentText)) =>
               /\ ConfirmPosted(m)
               /\ Len(msgs[m].resps) = 2
               /\ ~CallFailed(msgs[m].resps[2])
        /\ msgs[m].replies # <<>> =>
               /\ Finished(m)
               /\ Len(msgs[m].resps) = Len(msgs[m].calls)

\* once the reply is sent the calls of the message stay as they are until
\* the message is discarded
C19_RepliedIsFinal ==
    \A m \in Slots :
        msgs[m].replies # <<>> =>
            \/ msgs[m]' = msgs[m]
            \/ msgs[m]' = IdleMsg

C19_ConfirmOrder == [] C19_Order /\ [][C19_RepliedIsFinal]_vars

\* /confirm 2:a: the lookup listed account 2's item, the POST returned 200
\* and the success reply was sent
C19_Witness ==
    \E m \in Slots :
        /\ Finished(m)
        /\ msgs[m].identifier = <<"2", ":", "a">>
        /\ PendingListed(m)
        /\ Len(Pending(m)) = 1 /\ Pending(m)[1].account_id = 2
        /\ ConfirmPosted(m)
        /\ Len(msgs[m].resps) = 2
        /\ msgs[m].resps[2].status = 200
        /\ msgs[m].replies = <<Plain(ConfirmSentText)>>

(***************************************************************************)
(* C20: under any interleaving of concurrent /confirm messages, the        *)
(* accountId, confirmationId and nonce of a message's POST to the confirm  *)
(* endpoint are those of one item of the pending list that the GET of the  *)
(* same message returned, and its telegramUserId is the id of the          *)
(* message's own sender, which is also the id its GET asked for.           *)
(***************************************************************************)
C20_OwnPendingList ==
    \A m \in Slots :
        \A i \in 1..Len(msgs[m].calls) :
            msgs[m].calls[i].endpoint = "/api/telegram/bot/confirm" =>
                /\ i = 2
                /\ msgs[m].calls[1].endpoint = "/api/telegram/bot/confirms/"
                /\ msgs[m].calls[1].suffix = IntToStr(msgs[m].sender.id)
                /\ PendingListed(m)
                /\ \E k \in 1..Len(Pending(m)) :
                       /\ msgs[m].calls[i].payload.accountId = Pending(m)[k].account_id
                       /\ msgs[m].calls[i].payload.confirmationId = Pending(m)[k].confirmation_id
                       /\ msgs[m].calls[i].payload.nonce =
                              (IF "nonce" \in Pending(m)[k].keys THEN Pending(m)[k].nonce
                               ELSE None)
                /\ msgs[m].calls[i].payload.telegramUserId = IntToStr(msgs[m].sender.id)

\* two /confirm a in flight at once, from senders 42 and 7, whose lookups
\* returned different lists (account 1 and account 2): each has posted the
\* item of its own list under its own sender's id
C20_Witness ==
    \E a, b \in Slots :
        /\ a # b
        /\ msgs[a].sender.id = 42 /\ msgs[b].sender.id = 7
        /\ PendingListed(a) /\ PendingListed(b)
        /\ Pending(a)[1].account_id = 1 /\ Pending(b)[1].account_id = 2
        /\ ConfirmPosted(a) /\ ConfirmPosted(b)
        /\ Hung(a) /\ Hung(b)
        /\ msgs[a].calls[2].payload.accountId = 1
        /\ msgs[a].calls[2].payload.telegramUserId = <<"4", "2">>
        /\ msgs[b].calls[2].payload.accountId = 2
        /\ msgs[b].calls[2].payload.telegramUserId = <<"7">>

=============================================================================
